---- MODULE Spec2Model ----
(***************************************************************************)
(* Model of balance_sheet/debt.py: the Mortgage class, its validating      *)
(* property setters, the constructor, the amortization table and the       *)
(* public methods.                                                         *)
(*                                                                         *)
(* Python values are tagged records [t |-> type name, v |-> payload].      *)
(* Strings are sequences of one-character strings, so that isdigit, int(), *)
(* strip, lower and strptime are computed character by character.          *)
(* Python floats are modelled as decimal floating point numbers with       *)
(* Prec significant digits and truncation (an IEEE double carries 15.95    *)
(* decimal digits): every arithmetic operation rounds its result, so the   *)
(* cancellation the closed-form annuity formulas suffer is part of the     *)
(* model.                                                                  *)
(***************************************************************************)
EXTENDS Integers, Sequences, FiniteSets, TLC

(***************************************************************************)
(* Natural numbers of any size: little-endian sequences of limbs base Base *)
(* (leading zero limbs allowed).  The operators are written without        *)
(* recursion: carries and borrows by look-ahead, shifts by digit position. *)
(***************************************************************************)
Max(a, b) == IF a >= b THEN a ELSE b
Min(a, b) == IF a <= b THEN a ELSE b
Abs(n) == IF n < 0 THEN -n ELSE n
Sign(n) == IF n < 0 THEN -1 ELSE IF n = 0 THEN 0 ELSE 1

Pow10(d) == <<1, 10, 100, 1000, 10000>>[d + 1]
Base == Pow10(4)
LimbDigits == 4 * Pow10(0)

DigitsOf(n) ==
    IF n >= 1000 THEN 4 ELSE IF n >= 100 THEN 3 ELSE IF n >= 10 THEN 2 ELSE 1

\* the element of a singleton: Only({e : x \in {d}}) is e with d evaluated first
Only(S) == CHOOSE y \in S : TRUE

\* the sequence f[1], ..., f[n], evaluated
Limbs(f, n) == IF n <= 0 THEN << >> ELSE SubSeq(f, 1, n)

Limb(a, i) == IF i >= 1 /\ i <= Len(a) THEN a[i] ELSE 0

(***************************************************************************)
(* The arithmetic below is written as operators XOp that call one another  *)
(* through Num: X(a, b) stands for Num("X", <<a, b>>), which applies XOp.  *)
(***************************************************************************)
RECURSIVE Num(_, _)
BLen(a) == Num("BLen", <<a>>)
NDigits(a) == Num("NDigits", <<a>>)
BAdd(a, b) == Num("BAdd", <<a, b>>)
BSub(a, b) == Num("BSub", <<a, b>>)
BCmp(a, b) == Num("BCmp", <<a, b>>)
BMulSmall(a, k) == Num("BMulSmall", <<a, k>>)
BMul(a, b) == Num("BMul", <<a, b>>)
BMulPow10(a, d) == Num("BMulPow10", <<a, d>>)
BDivPow10(a, d) == Num("BDivPow10", <<a, d>>)
CountFits(r, b, k) == Num("CountFits", <<r, b, k>>)
DivStep(rem, limb, b, n) == Num("DivStep", <<rem, limb, b, n>>)
BDiv(a, b, n) == Num("BDiv", <<a, b, n>>)
FNorm(s, n, e) == Num("FNorm", <<s, n, e>>)
FFromInt(n) == Num("FFromInt", <<n>>)
FMul(a, b) == Num("FMul", <<a, b>>)
FDiv(a, b) == Num("FDiv", <<a, b>>)
FAdd(a, b) == Num("FAdd", <<a, b>>)
FSub(a, b) == Num("FSub", <<a, b>>)
FLt(a, b) == Num("FLt", <<a, b>>)
FLe(a, b) == Num("FLe", <<a, b>>)
FPow(b, k) == Num("FPow", <<b, k>>)
ToFloat(x) == Num("ToFloat", <<x>>)
PyLe(x, y) == Num("PyLe", <<x, y>>)
PyGe(x, y) == Num("PyGe", <<x, y>>)
PyTrueDiv(x, y) == Num("PyTrueDiv", <<x, y>>)
PySub(x, y) == Num("PySub", <<x, y>>)
PyMul(x, y) == Num("PyMul", <<x, y>>)
PyToInt(x) == Num("PyToInt", <<x>>)
NpfPmt(rate, nper, pv) == Num("NpfPmt", <<rate, nper, pv>>)
NpfFv(rate, nper, pmt, pv) == Num("NpfFv", <<rate, nper, pmt, pv>>)
NpfIpmt(rate, per, nper, pv) == Num("NpfIpmt", <<rate, per, nper, pv>>)
NpfPpmt(rate, per, nper, pv) == Num("NpfPpmt", <<rate, per, nper, pv>>)

\* the limbs of n < Base^3
BFromNat(n) == <<n % Base, (n \div Base) % Base, n \div (Base * Base)>>

\* the number of limbs up to the top non-zero one
BLenOp(a) ==
    IF \A i \in 1..Len(a) : a[i] = 0 THEN 0
    ELSE CHOOSE i \in 1..Len(a) : a[i] # 0 /\ \A k \in (i + 1)..Len(a) : a[k] = 0

BIsZero(a) == BLen(a) = 0

\* the number of decimal digits of a # 0
NDigitsOp(a) == LimbDigits * (BLen(a) - 1) + DigitsOf(a[BLen(a)])

\* limbs below Base each, so every limb sum is below 2 * Base: a carry enters
\* limb i when a lower limb sum overflows and every sum in between is Base - 1
BAddOp(a, b) ==
    LET n == Max(Len(a), Len(b)) + 1
        sum == Limbs([i \in 1..n |-> Limb(a, i) + Limb(b, i)], n)
        carry == Limbs([i \in 1..n |->
                     IF \E j \in 1..(i - 1) :
                            sum[j] >= Base /\ \A k \in (j + 1)..(i - 1) : sum[k] = Base - 1
                     THEN 1 ELSE 0], n)
    IN Limbs([i \in 1..n |-> (sum[i] + carry[i]) % Base], n)

\* a - b for a >= b: a borrow leaves limb j when a[j] < b[j] and passes every
\* limb where a[k] = b[k]
BSubOp(a, b) ==
    LET n == Max(Len(a), Len(b))
        dif == Limbs([i \in 1..n |-> Limb(a, i) - Limb(b, i)], n)
        borrow == Limbs([i \in 1..n |->
                      IF \E j \in 1..(i - 1) :
                             dif[j] < 0 /\ \A k \in (j + 1)..(i - 1) : dif[k] = 0
                      THEN 1 ELSE 0], n)
    IN Limbs([i \in 1..n |-> (dif[i] - borrow[i]) % Base], n)

\* -1, 0, 1 as a < b, a = b, a > b
BCmpOp(a, b) ==
    LET n == Max(Len(a), Len(b))
    IN IF \A i \in 1..n : Limb(a, i) = Limb(b, i) THEN 0
       ELSE LET top == CHOOSE i \in 1..n :
                           /\ Limb(a, i) # Limb(b, i)
                           /\ \A k \in (i + 1)..n : Limb(a, k) = Limb(b, k)
            IN IF Limb(a, top) < Limb(b, top) THEN -1 ELSE 1

\* a * k for 0 <= k <= Base: the low halves of the limb products plus their
\* high halves one limb up
BMulSmallOp(a, k) ==
    LET n == Len(a)
    IN BAdd(Limbs([i \in 1..n |-> (a[i] * k) % Base], n),
            Limbs([i \in 1..(n + 1) |-> (Limb(a, i - 1) * k) \div Base], n + 1))

\* a * b for numbers of at most four limbs: column sums below 4 * Base^2, split
\* into three limbs each
BMulOp(a, b) ==
    LET n == Len(a) + Len(b)
        col == Limbs([k \in 1..n |->
                   Limb(a, 1) * Limb(b, k) + Limb(a, 2) * Limb(b, k - 1)
                   + Limb(a, 3) * Limb(b, k - 2) + Limb(a, 4) * Limb(b, k - 3)], n)
        lo == Limbs([k \in 1..n |-> col[k] % Base], n)
        mid == Limbs([k \in 1..n |-> (Limb(col, k - 1) \div Base) % Base], n)
        hi == Limbs([k \in 1..n |-> Limb(col, k - 2) \div (Base * Base)], n)
    IN BAdd(BAdd(lo, mid), hi)

\* a * 10^d
BMulPow10Op(a, d) ==
    LET q == d \div LimbDigits
        r == d % LimbDigits
        n == Len(a) + q + 1
    IN Limbs([i \in 1..n |->
                 (Limb(a, i - q) % Pow10(LimbDigits - r)) * Pow10(r)
                 + (Limb(a, i - q - 1) \div Pow10(LimbDigits - r))], n)

\* floor(a / 10^d)
BDivPow10Op(a, d) ==
    LET q == d \div LimbDigits
        r == d % LimbDigits
        n == Max(Len(a) - q, 1)
    IN Limbs([i \in 1..n |->
                 (Limb(a, i + q) \div Pow10(r))
                 + (Limb(a, i + q + 1) % Pow10(r)) * Pow10(LimbDigits - r)], n)

\* The top two limbs of r seen from limb position n (the top limb of the divisor)
TopTwo(r, n) == Limb(r, n + 1) * Base + Limb(r, n)

\* how many of 1 * b, 2 * b, ..., k * b are at most r
CountFitsOp(r, b, k) == Cardinality({j \in 1..k : BCmp(BMulSmall(b, j), r) <= 0})

\* One step of long division: rem * Base + limb divided by b, for rem < b and
\* a divisor of n limbs whose top limb is at least Base / 10.  Two estimates
\* from the top limbs, neither above the quotient, and a final correction.
DivStepOp(rem, limb, b, n) ==
    LET r == <<limb>> \o rem
        top == b[n] + 1
        q1 == TopTwo(r, n) \div top
        r1 == BSub(r, BMulSmall(b, q1))
        q2 == TopTwo(r1, n) \div top
        r2 == BSub(r1, BMulSmall(b, q2))
        q3 == CountFits(r2, b, 3)
    IN [q |-> q1 + q2 + q3, rem |-> SubSeq(BSub(r2, BMulSmall(b, q3)), 1, n)]

\* floor(a / b) for a of 2 * n limbs whose top n limbs are below b, a divisor
\* as for DivStep; the quotient has n limbs
BDivOp(a, b, n) ==
    LET s4 == DivStep(SubSeq(a, n + 1, 2 * n), a[4], b, n)
        s3 == DivStep(s4.rem, a[3], b, n)
        s2 == DivStep(s3.rem, a[2], b, n)
        s1 == DivStep(s2.rem, a[1], b, n)
    IN <<s1.q, s2.q, s3.q, s4.q>>

(***************************************************************************)
(* Python floats: [s |-> sign, m |-> mantissa, e |-> exponent], the value  *)
(* s * m * 10^e, with m a natural number of exactly Prec digits in four    *)
(* limbs (zero has s = 0 and m = << >>).  Results are truncated to Prec    *)
(* digits.                                                                 *)
(***************************************************************************)
Prec == 4 * LimbDigits
MantLimbs == Prec \div LimbDigits

FZero == [s |-> 0, m |-> << >>, e |-> 0]

FNormOp(s, n, e) ==
    CASE s = 0 \/ BIsZero(n) -> FZero
      [] NDigits(n) > Prec ->
           [s |-> s,
            m |-> SubSeq(BDivPow10(n, NDigits(n) - Prec), 1, MantLimbs),
            e |-> e + (NDigits(n) - Prec)]
      [] OTHER ->
           [s |-> s,
            m |-> SubSeq(BMulPow10(n, Prec - NDigits(n)), 1, MantLimbs),
            e |-> e - (Prec - NDigits(n))]

\* the float n * 10^e, for -Base < n < Base
FLit(n, e) ==
    IF n = 0 THEN FZero
    ELSE [s |-> Sign(n),
          m |-> <<0, 0, 0, Abs(n) * Pow10(LimbDigits - DigitsOf(Abs(n)))>>,
          e |-> e - (Prec - DigitsOf(Abs(n)))]
\* float(n) for an int n
FFromIntOp(n) == FNorm(Sign(n), BFromNat(Abs(n)), 0)
FOne == FLit(1, 0)
FNeg(a) == [a EXCEPT !.s = -a.s]

FMulOp(a, b) ==
    IF a.s = 0 \/ b.s = 0 THEN FZero
    ELSE FNorm(a.s * b.s, BMul(a.m, b.m), a.e + b.e)

\* a / b for b # 0: the mantissa is shifted so that the quotient has exactly
\* Prec digits
FDivOp(a, b) ==
    IF a.s = 0 THEN FZero
    ELSE LET shift == IF BCmp(a.m, b.m) >= 0 THEN Prec - 1 ELSE Prec
         IN [s |-> a.s * b.s,
             m |-> BDiv(BMulPow10(a.m, shift), b.m, MantLimbs),
             e |-> a.e - shift - b.e]

\* sa * x * 10^lo + sb * y * 10^lo
FAddSigned(sa, x, sb, y, lo) ==
    CASE sa = sb -> FNorm(sa, BAdd(x, y), lo)
      [] BCmp(x, y) = 0 -> FZero
      [] BCmp(x, y) > 0 -> FNorm(sa, BSub(x, y), lo)
      [] OTHER -> FNorm(sb, BSub(y, x), lo)

\* a + b with both mantissas scaled to the exponent lo
FAddAligned(a, b, lo) ==
    FAddSigned(a.s, BMulPow10(a.m, a.e - lo), b.s, BMulPow10(b.m, b.e - lo), lo)

\* Exact sum, then truncation; an operand more than Prec + LimbDigits digits
\* below the other one is absorbed.
FAddOp(a, b) ==
    CASE a.s = 0 -> b
      [] b.s = 0 -> a
      [] a.e - b.e > Prec + LimbDigits -> a
      [] b.e - a.e > Prec + LimbDigits -> b
      [] OTHER -> FAddAligned(a, b, Min(a.e, b.e))

FSubOp(a, b) == FAdd(a, FNeg(b))
FLtOp(a, b) == FSub(a, b).s < 0
FLeOp(a, b) == FSub(a, b).s <= 0
FAbs(a) == [a EXCEPT !.s = Abs(a.s)]

\* acc * base ** k, by repeated squaring from the low bits of k
RECURSIVE FPowLoop(_, _, _)
FPowLoop(acc, base, k) ==
    IF k = 0 THEN acc
    ELSE IF acc.s = 0 \/ base.s = 0 THEN FZero
    ELSE IF k = 1 THEN FMul(acc, base)
    ELSE FPowLoop(IF k % 2 = 1 THEN FMul(acc, base) ELSE acc, FMul(base, base),
                  k \div 2)

\* b ** k for an integer k >= 0
FPowOp(b, k) == FPowLoop(FOne, b, k)

(***************************************************************************)
(* Python values and exceptions.  A call's outcome is [exc, v]: exc is ""  *)
(* for a normal return of v, otherwise the name of the exception raised.   *)
(***************************************************************************)
PyInt(n) == [t |-> "int", v |-> n]
PyFloat(f) == [t |-> "float", v |-> f]
PyStr(s) == [t |-> "str", v |-> s]
PyDate(y, m, d) == [t |-> "datetime", v |-> [year |-> y, month |-> m, day |-> d]]
PyNone == [t |-> "NoneType", v |-> 0]

Return(x) == [exc |-> "", v |-> x]
Raise(e) == [exc |-> e, v |-> PyNone]

\* isinstance(x, (int, float))
IsNumber(x) == x.t \in {"int", "float"}
ToFloatOp(x) == IF x.t = "int" THEN FFromInt(x.v) ELSE x.v

\* x <= y, x >= y for Python numbers
PyLeOp(x, y) ==
    IF x.t = "int" /\ y.t = "int" THEN x.v <= y.v ELSE FLe(ToFloat(x), ToFloat(y))
PyGeOp(x, y) == PyLe(y, x)

DigitChars == <<"0", "1", "2", "3", "4", "5", "6", "7", "8", "9">>
IsDigitChar(c) == \E i \in 1..Len(DigitChars) : DigitChars[i] = c
DigitValue(c) == (CHOOSE i \in 1..Len(DigitChars) : DigitChars[i] = c) - 1

\* str.isdigit and str.isnumeric (the same on ASCII text): false on ""
IsDigit(s) == Len(s) > 0 /\ \A i \in 1..Len(s) : IsDigitChar(s[i])

\* int(s) for a string of digits
RECURSIVE ParseInt(_)
ParseInt(s) ==
    IF s = << >> THEN 0
    ELSE 10 * ParseInt(SubSeq(s, 1, Len(s) - 1)) + DigitValue(s[Len(s)])

\* str.strip
RECURSIVE Strip(_)
Strip(s) ==
    IF s # << >> /\ Head(s) = " " THEN Strip(Tail(s))
    ELSE IF s # << >> /\ s[Len(s)] = " " THEN Strip(SubSeq(s, 1, Len(s) - 1))
    ELSE s

UpperChars == <<"A", "B", "D", "E", "F", "I", "L", "R", "V", "X">>
LowerChars == <<"a", "b", "d", "e", "f", "i", "l", "r", "v", "x">>
LowerChar(c) ==
    IF \E i \in 1..Len(UpperChars) : UpperChars[i] = c
    THEN LowerChars[CHOOSE i \in 1..Len(UpperChars) : UpperChars[i] = c]
    ELSE c
\* str.lower
Lower(s) == [i \in 1..Len(s) |-> LowerChar(s[i])]

\* True division x / y
PyTrueDivOp(x, y) ==
    IF IsNumber(x) /\ IsNumber(y)
    THEN IF ToFloat(y).s = 0 THEN Raise("ZeroDivisionError")
         ELSE Return(PyFloat(FDiv(ToFloat(x), ToFloat(y))))
    ELSE Raise("TypeError")

\* x - y for Python numbers
PySubOp(x, y) ==
    IF x.t = "int" /\ y.t = "int" THEN Return(PyInt(x.v - y.v))
    ELSE IF IsNumber(x) /\ IsNumber(y)
    THEN Return(PyFloat(FSub(ToFloat(x), ToFloat(y))))
    ELSE Raise("TypeError")

RECURSIVE Repeat(_, _)
Repeat(s, n) == IF n <= 0 THEN << >> ELSE s \o Repeat(s, n - 1)

\* x * y: numbers multiply, a string is repeated by an int
PyMulOp(x, y) ==
    IF x.t = "int" /\ y.t = "int" THEN Return(PyInt(x.v * y.v))
    ELSE IF IsNumber(x) /\ IsNumber(y)
    THEN Return(PyFloat(FMul(ToFloat(x), ToFloat(y))))
    ELSE IF x.t = "str" /\ y.t = "int" THEN Return(PyStr(Repeat(x.v, y.v)))
    ELSE IF x.t = "int" /\ y.t = "str" THEN Return(PyStr(Repeat(y.v, x.v)))
    ELSE Raise("TypeError")

(***************************************************************************)
(* datetime, timedelta and dateutil's relativedelta                        *)
(***************************************************************************)
IsLeap(y) == (y % 4 = 0 /\ y % 100 # 0) \/ y % 400 = 0

DaysInMonth(y, m) ==
    IF m = 2 THEN (IF IsLeap(y) THEN 29 ELSE 28)
    ELSE IF m \in {4, 6, 9, 11} THEN 30 ELSE 31

RECURSIVE DaysBeforeMonth(_, _)
DaysBeforeMonth(y, m) ==
    IF m = 1 THEN 0 ELSE DaysBeforeMonth(y, m - 1) + DaysInMonth(y, m - 1)

\* datetime.toordinal: day 1 is 0001-01-01
ToOrdinal(d) ==
    LET y == d.year - 1
    IN (y * 365) + (y \div 4) - (y \div 100) + (y \div 400)
       + DaysBeforeMonth(d.year, d.month) + d.day

\* the parts of s between the separators sep
RECURSIVE Split(_, _, _)
Split(s, sep, cur) ==
    IF s = << >> THEN <<cur>>
    ELSE IF Head(s) = sep THEN <<cur>> \o Split(Tail(s), sep, << >>)
    ELSE Split(Tail(s), sep, Append(cur, Head(s)))

\* datetime.strptime(s, '%Y-%m-%d'): %Y is four digits, %m and %d one or two
\* digits of a month and of a day of that month; anything else is a ValueError
Strptime(s) ==
    LET parts == Split(s, "-", << >>)
    IN IF Len(parts) # 3 THEN Raise("ValueError")
       ELSE LET ys == parts[1]
                ms == parts[2]
                ds == parts[3]
            IN IF ~(IsDigit(ys) /\ Len(ys) = 4 /\ IsDigit(ms) /\ Len(ms) <= 2
                    /\ IsDigit(ds) /\ Len(ds) <= 2)
               THEN Raise("ValueError")
               ELSE LET y == ParseInt(ys)
                        m == ParseInt(ms)
                        d == ParseInt(ds)
                    IN IF y >= 1 /\ m \in 1..12 /\ d >= 1 /\ d <= DaysInMonth(y, m)
                       THEN Return(PyDate(y, m, d))
                       ELSE Raise("ValueError")

\* dt + relativedelta(months=n), n >= 0: the day is clipped to the month's end
AddMonths(d, n) ==
    LET total == (d.year * 12 + (d.month - 1)) + n
        y == total \div 12
        m == (total % 12) + 1
    IN [year |-> y, month |-> m, day |-> Min(d.day, DaysInMonth(y, m))]

\* dt + relativedelta(years=n)
AddYears(d, n) == AddMonths(d, 12 * n)

\* relativedelta(years=x): years must equal int(years)
RelativedeltaYears(x) ==
    IF x.t = "int" THEN Return(x.v)
    ELSE IF x.t = "str" THEN Raise("ValueError")
    ELSE Raise("TypeError")

\* end - start for two datetimes: a timedelta
TimeDelta(start, end) ==
    [days |-> ToOrdinal(end) - ToOrdinal(start), seconds |-> 0, microseconds |-> 0]

\* obj.name
GetAttr(obj, name) ==
    IF name \in DOMAIN obj THEN Return(obj[name]) ELSE Raise("AttributeError")

\* the natural number a limb sequence stands for (below 2^31)
BToNat(a) == Limb(a, 1) + Base * Limb(a, 2) + Base * Base * Limb(a, 3)

\* int(x): a float is truncated towards zero
PyToIntOp(x) ==
    IF x.t = "int" THEN x.v
    ELSE IF x.v.s = 0 THEN 0
    ELSE IF x.v.e >= 0 THEN x.v.s * BToNat(BMulPow10(x.v.m, x.v.e))
    ELSE x.v.s * BToNat(BDivPow10(x.v.m, -x.v.e))

(***************************************************************************)
(* The property setters of Mortgage: each returns the value it stores, or  *)
(* raises.                                                                 *)
(***************************************************************************)
PrincipalSetter(principal) ==
    IF principal.t = "str" /\ ~IsDigit(principal.v) THEN Raise("ValueError")
    ELSE IF principal.t # "str" /\ ~IsNumber(principal) THEN Raise("ValueError")
    ELSE LET p == IF principal.t = "str" THEN PyInt(ParseInt(principal.v))
                  ELSE principal
         IN IF PyLe(PyInt(1), p) /\ PyLe(p, PyInt(10000000))
            THEN Return(PyInt(PyToInt(p)))
            ELSE Raise("ValueError")

InterestRateSetter(interest_rate) ==
    IF interest_rate.t = "str" /\ ~IsDigit(interest_rate.v) THEN Raise("ValueError")
    ELSE LET r == IF interest_rate.t = "str"
                  THEN PyFloat(FFromInt(ParseInt(interest_rate.v)))
                  ELSE interest_rate
         IN IF IsNumber(r)
            THEN LET q == IF PyGe(r, PyFloat(FFromInt(1)))
                          THEN PyTrueDiv(r, PyInt(100)).v
                          ELSE r
                 IN IF PyLe(PyFloat(FZero), q) /\ PyLe(q, PyFloat(FLit(25, -2)))
                    THEN Return(q)
                    ELSE Raise("ValueError")
            ELSE Raise("ValueError")

TermSetter(term) ==
    IF term.t = "str" /\ ~IsDigit(term.v) THEN Raise("ValueError")
    ELSE IF term.t # "str" /\ ~IsNumber(term) THEN Raise("ValueError")
    ELSE LET x == IF term.t = "str" THEN PyInt(ParseInt(term.v)) ELSE term
         IN IF PyLe(PyInt(1), x) /\ PyLe(x, PyInt(30))
            THEN Return(PyInt(PyToInt(x)))
            ELSE Raise("ValueError")

AmortizationSetter(amortization) ==
    IF amortization.t = "str" /\ ~IsDigit(amortization.v) THEN Raise("ValueError")
    ELSE IF amortization.t # "str" /\ ~IsNumber(amortization) THEN Raise("ValueError")
    ELSE LET x == IF amortization.t = "str" THEN PyInt(ParseInt(amortization.v))
                  ELSE amortization
         IN IF PyLe(PyInt(1), x) /\ PyLe(x, PyInt(30))
            THEN Return(PyInt(PyToInt(x)))
            ELSE Raise("ValueError")

StartDateSetter(start_date) ==
    IF start_date.t = "datetime" THEN Return(start_date)
    ELSE IF start_date.t = "str" THEN Strptime(start_date.v)
    ELSE Raise("ValueError")

PrepaymentPerPeriodSetter(prepayment_per_period) ==
    IF prepayment_per_period.t = "str" /\ ~IsDigit(prepayment_per_period.v)
    THEN Raise("ValueError")
    ELSE IF prepayment_per_period.t # "str" /\ ~IsNumber(prepayment_per_period)
    THEN Raise("ValueError")
    ELSE LET x == IF prepayment_per_period.t = "str"
                  THEN PyInt(ParseInt(prepayment_per_period.v))
                  ELSE prepayment_per_period
         IN IF PyLe(PyFloat(FZero), x) /\ PyLe(x, PyInt(20000))
            THEN Return(PyInt(PyToInt(x)))
            ELSE Raise("ValueError")

ProductNames == {<<"f", "i", "x", "e", "d">>,
                 <<"v", "a", "r", "i", "a", "b", "l", "e">>}

\* product.strip() is an attribute lookup: only a str has it
ProductSetter(product) ==
    IF product.t # "str" THEN Raise("AttributeError")
    ELSE IF Lower(Strip(product.v)) \in ProductNames
    THEN Return(PyStr(Lower(Strip(product.v))))
    ELSE Raise("ValueError")

PaymentsPerYearSetter(payments_per_year) ==
    IF payments_per_year.t = "str" /\ ~IsDigit(payments_per_year.v)
    THEN Raise("ValueError")
    ELSE IF payments_per_year.t # "str" /\ ~IsNumber(payments_per_year)
    THEN Raise("ValueError")
    ELSE LET x == IF payments_per_year.t = "str"
                  THEN PyInt(ParseInt(payments_per_year.v))
                  ELSE payments_per_year
         IN IF \E k \in {12, 26, 52} : PyLe(x, PyInt(k)) /\ PyGe(x, PyInt(k))
            THEN Return(PyInt(PyToInt(x)))
            ELSE Raise("ValueError")

(***************************************************************************)
(* numpy_financial, as the methods call it (fv = 0, when = 'end')          *)
(***************************************************************************)

\* npf.pmt(rate, nper, pv)
NpfPmtOp(rate, nper, pv) ==
    LET temp == FPow(FAdd(FOne, rate), nper)
        fact == IF rate.s = 0 THEN FFromInt(nper)
                ELSE FDiv(FSub(temp, FOne), rate)
    IN FNeg(FDiv(FMul(pv, temp), fact))

\* npf.fv(rate, nper, pmt, pv)
NpfFvOp(rate, nper, pmt, pv) ==
    LET temp == FPow(FAdd(FOne, rate), nper)
        fact == IF rate.s = 0 THEN FFromInt(nper)
                ELSE FDiv(FSub(temp, FOne), rate)
    IN FNeg(FAdd(FMul(pv, temp), FMul(pmt, fact)))

\* npf.ipmt(rate, per, nper, pv): the remaining balance before period per,
\* times the rate
NpfIpmtOp(rate, per, nper, pv) ==
    FMul(NpfFv(rate, per - 1, NpfPmt(rate, nper, pv), pv), rate)

\* npf.ppmt(rate, per, nper, pv)
NpfPpmtOp(rate, per, nper, pv) ==
    FSub(NpfPmt(rate, nper, pv), NpfIpmt(rate, per, nper, pv))

\* The operator named f applied to the arguments x.  The test of x has the
\* arguments evaluated before the operator is applied.
Num(f, x) ==
    IF x = << >> THEN x
    ELSE CASE f = "BLen" -> BLenOp(x[1])
           [] f = "NDigits" -> NDigitsOp(x[1])
           [] f = "BAdd" -> BAddOp(x[1], x[2])
           [] f = "BSub" -> BSubOp(x[1], x[2])
           [] f = "BCmp" -> BCmpOp(x[1], x[2])
           [] f = "BMulSmall" -> BMulSmallOp(x[1], x[2])
           [] f = "BMul" -> BMulOp(x[1], x[2])
           [] f = "BMulPow10" -> BMulPow10Op(x[1], x[2])
           [] f = "BDivPow10" -> BDivPow10Op(x[1], x[2])
           [] f = "CountFits" -> CountFitsOp(x[1], x[2], x[3])
           [] f = "DivStep" -> DivStepOp(x[1], x[2], x[3], x[4])
           [] f = "BDiv" -> BDivOp(x[1], x[2], x[3])
           [] f = "FNorm" -> FNormOp(x[1], x[2], x[3])
           [] f = "FFromInt" -> FFromIntOp(x[1])
           [] f = "FMul" -> FMulOp(x[1], x[2])
           [] f = "FDiv" -> FDivOp(x[1], x[2])
           [] f = "FAdd" -> FAddOp(x[1], x[2])
           [] f = "FSub" -> FSubOp(x[1], x[2])
           [] f = "FLt" -> FLtOp(x[1], x[2])
           [] f = "FLe" -> FLeOp(x[1], x[2])
           [] f = "FPow" -> FPowOp(x[1], x[2])
           [] f = "ToFloat" -> ToFloatOp(x[1])
           [] f = "PyLe" -> PyLeOp(x[1], x[2])
           [] f = "PyGe" -> PyGeOp(x[1], x[2])
           [] f = "PyTrueDiv" -> PyTrueDivOp(x[1], x[2])
           [] f = "PySub" -> PySubOp(x[1], x[2])
           [] f = "PyMul" -> PyMulOp(x[1], x[2])
           [] f = "PyToInt" -> PyToIntOp(x[1])
           [] f = "NpfPmt" -> NpfPmtOp(x[1], x[2], x[3])
           [] f = "NpfFv" -> NpfFvOp(x[1], x[2], x[3], x[4])
           [] f = "NpfIpmt" -> NpfIpmtOp(x[1], x[2], x[3], x[4])
           [] f = "NpfPpmt" -> NpfPpmtOp(x[1], x[2], x[3], x[4])

\* whether numpy takes the three arguments as numbers
NpfArgsOk(rate, nper, pv) == IsNumber(rate) /\ IsNumber(nper) /\ IsNumber(pv)

(***************************************************************************)
(* Mortgage: the methods, as functions of the instance self                *)
(***************************************************************************)
\* calculate_payment: the payment attribute
CalculatePaymentOf(self) ==
    IF ~NpfArgsOk(self.period_rate, self.num_periods, self.current_balance)
    THEN Raise("TypeError")
    ELSE Return(PyFloat(FNeg(NpfPmt(ToFloat(self.period_rate),
                                    PyToInt(self.num_periods),
                                    ToFloat(self.current_balance)))))

CalculateInterestPortion(self, current_period, current_balance) ==
    FNeg(NpfIpmt(ToFloat(self.period_rate), current_period,
                 PyToInt(self.num_periods), ToFloat(current_balance)))

CalculatePrincipalPortion(self, current_period, current_balance) ==
    FNeg(NpfPpmt(ToFloat(self.period_rate), current_period,
                 PyToInt(self.num_periods), ToFloat(current_balance)))

\* The balance column of create_amortization_table for the loop indices
\* lo..hi (1-based), the loop run half by half: balance[i] is balance[i-1],
\* here prev, less principal_portion[i].
RECURSIVE BalanceColumn(_, _, _, _)
BalanceColumn(principal_portion, lo, hi, prev) ==
    IF lo > hi THEN << >>
    ELSE IF lo = hi THEN << FSub(prev, principal_portion[lo]) >>
    ELSE LET mid == (lo + hi) \div 2
             left == BalanceColumn(principal_portion, lo, mid, prev)
         IN left \o BalanceColumn(principal_portion, mid + 1, hi, left[Len(left)])

\* The DataFrame without its last row
TableFrameShort(self, n, interest_portion, principal_portion, balance) ==
    Limbs([i \in 1..(n - 1) |->
              [payment_dates |-> AddMonths(self._start_date.v, i - 1),
               payment_num |-> i,
               payment |-> self.payment,
               balance |-> balance[i],
               interest_portion |-> interest_portion[i],
               principal_portion |-> principal_portion[i]]], n - 1)

\* The DataFrame, one record per row
TableFrame(self, n, interest_portion, principal_portion, balance) ==
    Limbs([i \in 1..n |->
              [payment_dates |-> AddMonths(self._start_date.v, i - 1),
               payment_num |-> i,
               payment |-> self.payment,
               balance |-> balance[i],
               interest_portion |-> interest_portion[i],
               principal_portion |-> principal_portion[i]]], n)

\* The columns, in the order the loop fills them.  The list balance starts as
\* [principal] * num_periods, so the balance[i] the two portions are computed
\* from is the principal.
TableRows(self) ==
    LET n == self.num_periods.v
    IN Only({ Only({ TableFrame(self, n, ip, pp, balance) :
                     balance \in {BalanceColumn(pp, 1, n, ToFloat(self._principal))} }) :
              ip \in {Limbs([i \in 1..n |->
                         CalculateInterestPortion(self, i, self._principal)], n)},
              pp \in {Limbs([i \in 1..n |->
                         CalculatePrincipalPortion(self, i, self._principal)], n)} })

\* create_amortization_table: the amortization_table attribute
CreateAmortizationTableOf(self) ==
    IF self.num_periods.t # "int" THEN Raise("TypeError")
    ELSE IF self.num_periods.v > 0 /\ ~NpfArgsOk(self.period_rate, self.num_periods,
                                                 self._principal)
    THEN Raise("TypeError")
    ELSE Return(TableRows(self))

(***************************************************************************)
(* Mortgage.__init__                                                       *)
(***************************************************************************)
FieldNames == <<"principal", "interest_rate", "term", "amortization", "start_date",
                "prepayment_per_period", "product", "payments_per_year">>

\* The eight assignments of __init__, in the order they run: what each setter
\* stores or raises for the keyword arguments kw.
SetterResults(kw) ==
    << PrincipalSetter(kw.principal),
       InterestRateSetter(kw.interest_rate),
       TermSetter(kw.term),
       AmortizationSetter(kw.amortization),
       StartDateSetter(kw.start_date),
       PrepaymentPerPeriodSetter(kw.prepayment_per_period),
       ProductSetter(kw.product),
       PaymentsPerYearSetter(kw.payments_per_year) >>

\* The first exception in a sequence of outcomes, "" when there is none
FirstExc(rs) ==
    IF \A i \in 1..Len(rs) : rs[i].exc = "" THEN ""
    ELSE rs[CHOOSE i \in 1..Len(rs) :
                rs[i].exc # "" /\ \A k \in 1..(i - 1) : rs[k].exc = ""].exc

\* create_amortization_table(), the last statement of __init__
InitTable(self, table) ==
    IF table.exc # "" THEN Raise(table.exc)
    ELSE Return([self EXCEPT !.amortization_table = table.v])

InitCreate(self) == InitTable(self, CreateAmortizationTableOf(self))

\* calculate_payment()
InitPayment(self, pay) ==
    IF pay.exc # "" THEN Raise(pay.exc)
    ELSE InitCreate([self EXCEPT !.payment = pay.v])

InitCalculate(self) == InitPayment(self, CalculatePaymentOf(self))

\* The attributes __init__ derives, from the arguments as given and not from
\* the stored fields rs: derived is <<period_rate, num_periods, years>>, the
\* last for relativedelta(years=term), and start the start_date argument as
\* a datetime.
InitDerived(kw, rs, derived, start) ==
    IF FirstExc(derived) # "" THEN Raise(FirstExc(derived))
    ELSE InitCalculate([_principal |-> rs[1].v,
                        _interest_rate |-> rs[2].v,
                        _term |-> rs[3].v,
                        _amortization |-> rs[4].v,
                        _start_date |-> rs[5].v,
                        _prepayment_per_period |-> rs[6].v,
                        _product |-> rs[7].v,
                        _payments_per_year |-> rs[8].v,
                        period_rate |-> derived[1].v,
                        num_periods |-> derived[2].v,
                        current_period |-> PyInt(1),
                        current_balance |-> rs[1].v,
                        term_end_date |-> AddYears(start.v, derived[3].v),
                        payment |-> PyNone,
                        amortization_table |-> << >>])

\* The eight assignments, then the derived attributes
InitSetters(kw, rs) ==
    IF FirstExc(rs) # "" THEN Raise(FirstExc(rs))
    ELSE InitDerived(kw, rs,
                     << PyTrueDiv(kw.interest_rate, kw.payments_per_year),
                        PyMul(kw.amortization, kw.payments_per_year),
                        RelativedeltaYears(kw.term) >>,
                     IF kw.start_date.t = "str" THEN Strptime(kw.start_date.v).v
                     ELSE kw.start_date)

\* Mortgage with the keyword arguments kw: the instance, or the exception
\* that leaves none
MortgageInit(kw) == InitSetters(kw, SetterResults(kw))

(***************************************************************************)
(* The remaining methods                                                   *)
(***************************************************************************)
\* calculate_current_balance: the new current_balance
CalculateCurrentBalanceOf(self, principal_payment) ==
    PySub(self.current_balance, principal_payment)

\* a str argument is parsed, anything else is used as it is
ParseDateArg(d) == IF d.t = "str" THEN Strptime(d.v) ELSE Return(d)

\* _calculate_num_periods_between_dates: the difference of two datetimes is a
\* timedelta, whose attributes are days, seconds and microseconds
CalculateNumPeriodsBetweenDatesOf(self, start_date, end_date) ==
    LET start == ParseDateArg(start_date)
        end == ParseDateArg(end_date)
    IN IF start.exc # "" THEN Raise(start.exc)
       ELSE IF end.exc # "" THEN Raise(end.exc)
       ELSE IF start.v.t # "datetime" \/ end.v.t # "datetime" THEN Raise("TypeError")
       ELSE LET months == GetAttr(TimeDelta(start.v.v, end.v.v), "months")
            IN IF months.exc # "" THEN Raise(months.exc)
               ELSE Return(PyInt(months.v \div 12))

\* make_lumpsum_payment, _recalculate_amortization_table and renew_mortgage
\* have the body pass: they return None and assign nothing
MakeLumpsumPaymentOf(self, payment, date) == Return(self)
RecalculateAmortizationTableOf(self) == Return(self)
RenewMortgageOf(self, kw) == Return(self)

(***************************************************************************)
(* Bounds and the arguments the calls are made with                        *)
(***************************************************************************)
\* the longest amortization, in years, of the instruments built
MaxAmortization == 2
\* the number of calls made on the instance after its construction
MaxOps == 1

\* the first configuration of tests.py, with the bounded amortization
BaseKwargs ==
    [principal |-> PyInt(1000000),
     interest_rate |-> PyFloat(FLit(3, -2)),
     term |-> PyInt(3),
     amortization |-> PyInt(MaxAmortization),
     start_date |-> PyDate(2021, 7, 1),
     prepayment_per_period |-> PyInt(0),
     product |-> PyStr(<<"f", "i", "x", "e", "d">>),
     payments_per_year |-> PyInt(12)]

\* the second configuration of tests.py, with the bounded amortization
StringKwargs ==
    [principal |-> PyStr(<<"5", "0", "0", "0", "0", "0">>),
     interest_rate |-> PyInt(5),
     term |-> PyInt(5),
     amortization |-> PyInt(MaxAmortization),
     start_date |-> PyStr(<<"2", "0", "2", "1", "-", "0", "7", "-", "0", "1">>),
     prepayment_per_period |-> PyInt(1000),
     product |-> PyStr(<<"f", "i", "x", "e", "d">>),
     payments_per_year |-> PyInt(12)]

\* Values tried for each field, in the order of FieldNames: those of the
\* tests, the ends of each domain, numeric strings and values of other types.
FieldValues ==
    << << PyInt(-1000), PyStr(<<"1", "0", "0", "0", "!">>), PyInt(12000000), PyInt(0), PyInt(10000001),
          PyNone, PyInt(1), PyInt(10000000), PyStr(<<"5", "0", "0", "0", "0", "0">>) >>,
       << PyFloat(FLit(-1, -1)), PyStr(<<"0", ".", "2", "a">>), PyInt(30), PyFloat(FLit(5, -1)),
          PyNone, PyInt(5), PyFloat(FLit(25, -2)), PyInt(25), PyFloat(FZero),
          PyStr(<<"5">>) >>,
       << PyInt(0), PyStr(<<"2", "!">>), PyInt(35), PyNone, PyInt(1), PyInt(30),
          PyStr(<<"3">>) >>,
       << PyInt(0), PyStr(<<"2", "!">>), PyInt(35), PyNone, PyStr(<<"2">>) >>
       \o [y \in 1..MaxAmortization |-> PyInt(y)],
       << PyStr(<<"0", "1", "-", "2", "5", "-", "2", "0", "2", "1">>), PyStr(<<"2", "0", "2", "1", "-", "0", "2", "-", "3", "0">>), PyInt(20210701), PyNone,
          PyStr(<<"2", "0", "2", "1", "-", "0", "7", "-", "0", "1">>), PyStr(<<"2", "0", "2", "0", "-", "0", "2", "-", "2", "9">>), PyDate(2021, 1, 31) >>,
       << PyInt(-100), PyStr(<<"2", "0", "0", "a">>), PyInt(30000), PyNone, PyInt(1000),
          PyInt(20000), PyStr(<<"1", "0", "0", "0">>) >>,
       << PyStr(<<"f", "l", "o", "a", "t", "i", "n", "g">>), PyStr(<< >>), PyInt(5), PyNone,
          PyStr(<<"v", "a", "r", "i", "a", "b", "l", "e">>), PyStr(<<" ", "F", "i", "x", "e", "d", " ">>) >>,
       << PyInt(-10), PyInt(10), PyInt(35), PyNone, PyInt(26), PyInt(52),
          PyStr(<<"1", "2">>) >> >>

\* BaseKwargs with field k replaced by each of its values
Overrides(k) ==
    [i \in 1..Len(FieldValues[k]) |->
        [BaseKwargs EXCEPT ![FieldNames[k]] = FieldValues[k][i]]]

\* the arguments the constructor is called with
ConstructorArgs ==
    <<BaseKwargs, StringKwargs>>
    \o Overrides(1) \o Overrides(2) \o Overrides(3) \o Overrides(4)
    \o Overrides(5) \o Overrides(6) \o Overrides(7) \o Overrides(8)

PrincipalPayments == << PyInt(1000), PyFloat(FLit(5, -1)), PyStr(<<"1", "0", "0", "0">>) >>
LumpsumPayments == << PyInt(-100), PyInt(0), PyInt(1000), PyInt(20000000) >>
StartDates == << PyStr(<<"2", "0", "2", "2", "-", "0", "1", "-", "0", "1">>), PyDate(2022, 1, 1) >>
EndDates == << PyStr(<<"2", "0", "2", "3", "-", "0", "1", "-", "0", "5">>), PyDate(2023, 1, 5), PyStr(<<"2", "0", "2", "3", "-", "0", "1">>) >>
\* the dates renew_mortgage is called on
CallDates == << PyDate(2021, 7, 1), PyDate(2022, 1, 1), PyDate(2060, 1, 1) >>
RenewalKwargs ==
    [term |-> PyInt(5),
     interest_rate |-> PyFloat(FLit(4, -2)),
     type |-> PyStr(<<"f", "i", "x", "e", "d">>),
     amortization_period |-> PyInt(1),
     start_date |-> PyDate(2024, 7, 1)]

(***************************************************************************)
(* The state: the instance built (none before the constructor returns, and *)
(* none when it raises), the last call with its outcome, and the number of *)
(* calls made on the instance.                                             *)
(***************************************************************************)
VARIABLES mortgage, last, nops

vars == <<mortgage, last, nops>>

Built == mortgage # << >>
Instance == mortgage[1]

NoArgs == [none |-> PyNone]

Init ==
    /\ mortgage = << >>
    /\ last = [op |-> "", args |-> NoArgs, exc |-> "", ret |-> PyNone]
    /\ nops = 0

\* the constructor call, with the keyword arguments kw
Construct(kw) ==
    /\ last.op = ""
    /\ \E r \in {MortgageInit(kw)} :
          /\ mortgage' = IF r.exc = "" THEN <<r.v>> ELSE << >>
          /\ last' = [op |-> "__init__", args |-> kw, exc |-> r.exc, ret |-> PyNone]
    /\ nops' = nops

\* A call on the instance: r is its outcome, obj the instance it leaves.
Call(op, args, exc, ret, obj) ==
    /\ mortgage' = <<obj>>
    /\ last' = [op |-> op, args |-> args, exc |-> exc, ret |-> ret]
    /\ nops' = nops + 1

CanCall == Built /\ nops < MaxOps

\* mortgage.<field> = value: the setter stores r.v in attr unless it raises
Assign(field, attr, value, r) ==
    /\ CanCall
    /\ Call(field, [value |-> value], r.exc, PyNone,
            IF r.exc = "" THEN [Instance EXCEPT ![attr] = r.v] ELSE Instance)

SetPrincipal(v) == Assign("principal", "_principal", v, PrincipalSetter(v))
SetInterestRate(v) ==
    Assign("interest_rate", "_interest_rate", v, InterestRateSetter(v))
SetTerm(v) == Assign("term", "_term", v, TermSetter(v))
SetAmortization(v) == Assign("amortization", "_amortization", v, AmortizationSetter(v))
SetStartDate(v) == Assign("start_date", "_start_date", v, StartDateSetter(v))
SetPrepaymentPerPeriod(v) ==
    Assign("prepayment_per_period", "_prepayment_per_period", v,
           PrepaymentPerPeriodSetter(v))
SetProduct(v) == Assign("product", "_product", v, ProductSetter(v))
SetPaymentsPerYear(v) ==
    Assign("payments_per_year", "_payments_per_year", v, PaymentsPerYearSetter(v))

CalculatePayment ==
    /\ CanCall
    /\ \E r \in {CalculatePaymentOf(Instance)} :
          Call("calculate_payment", NoArgs, r.exc, PyNone,
               IF r.exc = "" THEN [Instance EXCEPT !.payment = r.v] ELSE Instance)

CalculateCurrentBalance(principal_payment) ==
    /\ CanCall
    /\ \E r \in {CalculateCurrentBalanceOf(Instance, principal_payment)} :
          Call("calculate_current_balance", [principal_payment |-> principal_payment],
               r.exc, PyNone,
               IF r.exc = "" THEN [Instance EXCEPT !.current_balance = r.v]
               ELSE Instance)

CalculateNumPeriodsBetweenDates(start_date, end_date) ==
    /\ CanCall
    /\ \E r \in {CalculateNumPeriodsBetweenDatesOf(Instance, start_date, end_date)} :
          Call("_calculate_num_periods_between_dates",
               [start_date |-> start_date, end_date |-> end_date],
               r.exc, r.v, Instance)

CreateAmortizationTable ==
    /\ CanCall
    /\ \E r \in {CreateAmortizationTableOf(Instance)} :
          Call("create_amortization_table", NoArgs, r.exc, PyNone,
               IF r.exc = "" THEN [Instance EXCEPT !.amortization_table = r.v]
               ELSE Instance)

MakeLumpsumPayment(payment, date) ==
    /\ CanCall
    /\ \E r \in {MakeLumpsumPaymentOf(Instance, payment, date)} :
          Call("make_lumpsum_payment", [payment |-> payment, date |-> date],
               r.exc, PyNone, r.v)

RecalculateAmortizationTable ==
    /\ CanCall
    /\ \E r \in {RecalculateAmortizationTableOf(Instance)} :
          Call("_recalculate_amortization_table", NoArgs, r.exc, PyNone, r.v)

\* renew_mortgage with the keyword arguments kw, called on the date today
RenewMortgage(kw, today) ==
    /\ CanCall
    /\ \E r \in {RenewMortgageOf(Instance, kw)} :
          Call("renew_mortgage", [kw |-> kw, today |-> today], r.exc, PyNone, r.v)

Next ==
    \/ \E i \in 1..Len(ConstructorArgs) : Construct(ConstructorArgs[i])
    \/ \E i \in 1..Len(FieldValues[1]) : SetPrincipal(FieldValues[1][i])
    \/ \E i \in 1..Len(FieldValues[2]) : SetInterestRate(FieldValues[2][i])
    \/ \E i \in 1..Len(FieldValues[3]) : SetTerm(FieldValues[3][i])
    \/ \E i \in 1..Len(FieldValues[4]) : SetAmortization(FieldValues[4][i])
    \/ \E i \in 1..Len(FieldValues[5]) : SetStartDate(FieldValues[5][i])
    \/ \E i \in 1..Len(FieldValues[6]) : SetPrepaymentPerPeriod(FieldValues[6][i])
    \/ \E i \in 1..Len(FieldValues[7]) : SetProduct(FieldValues[7][i])
    \/ \E i \in 1..Len(FieldValues[8]) : SetPaymentsPerYear(FieldValues[8][i])
    \/ CalculatePayment
    \/ \E i \in 1..Len(PrincipalPayments) : CalculateCurrentBalance(PrincipalPayments[i])
    \/ \E i \in 1..Len(StartDates), j \in 1..Len(EndDates) :
           CalculateNumPeriodsBetweenDates(StartDates[i], EndDates[j])
    \/ CreateAmortizationTable
    \/ \E i \in 1..Len(LumpsumPayments) :
           MakeLumpsumPayment(LumpsumPayments[i], StartDates[1])
    \/ RecalculateAmortizationTable
    \/ \E i \in 1..Len(CallDates) : RenewMortgage(RenewalKwargs, CallDates[i])

Spec == Init /\ [][Next]_vars

(***************************************************************************)
(* The constructor alone, over the valid instruments without prepayment:   *)
(* the arguments are drawn first, then the constructor is applied to them. *)
(***************************************************************************)
\* principal and term, at the ends of their domains and in between; the
\* amortization is the shortest or the longest
ValidPrincipalTerms == {<<1, 1>>, <<1000000, 3>>, <<10000000, 30>>}
ValidRates == {FZero, FLit(3, -2), FLit(25, -2)}
ValidPaymentsPerYear == {12, 26, 52}

ValidArgs ==
    { [BaseKwargs EXCEPT !.principal = PyInt(pt[1]),
                         !.term = PyInt(pt[2]),
                         !.interest_rate = PyFloat(r),
                         !.amortization = PyInt(a),
                         !.payments_per_year = PyInt(n)] :
        pt \in ValidPrincipalTerms, r \in ValidRates,
        a \in {1, MaxAmortization}, n \in ValidPaymentsPerYear }

InitValid ==
    /\ mortgage = << >>
    /\ \E kw \in ValidArgs : last = [op |-> "", args |-> kw, exc |-> "", ret |-> PyNone]
    /\ nops = 0

ConstructValid == last.args \in ValidArgs /\ Construct(last.args)

SpecValid == InitValid /\ [][ConstructValid]_vars

(***************************************************************************)
(* The claims                                                              *)
(***************************************************************************)
\* the constructor is the call that ran last
AfterInit == last.op = "__init__"
\* the constructor is the call that ran last, and it returned
AfterInitOk == AfterInit /\ last.exc = "" /\ Built
\* the table of the instance, and its last record
Table == Instance.amortization_table
LastRecord == Table[Len(Table)]
\* some setter refuses its argument
Rejected(rs) == \E i \in 1..Len(rs) : rs[i].exc # ""
NoPrepayment == Instance._prepayment_per_period = PyInt(0)

\* C1: a constructor call in which the setter of some field refuses the value
\* given (out of range, an unparsable string, or of the wrong type) fails with
\* the validation error, ValueError, and leaves no instance.
C1_InvalidFieldIsValidationError ==
    (AfterInit /\ Rejected(SetterResults(last.args)))
        => (last.exc = "ValueError" /\ ~Built)

\* the numeric fields, for which a numeric string stands for its number
NumericFields == {"principal", "interest_rate", "term", "amortization",
                  "prepayment_per_period", "payments_per_year"}
\* int(x), and float(x) for the interest_rate
ParsedValue(f, x) ==
    IF x.t # "str" \/ f \notin NumericFields THEN x
    ELSE IF f = "interest_rate" THEN PyFloat(FFromInt(ParseInt(x.v)))
    ELSE PyInt(ParseInt(x.v))
ParsedKwargs(kw) == [f \in DOMAIN kw |-> ParsedValue(f, kw[f])]
SameAsParsed(obj, r) == r.exc = "" /\ r.v = obj

\* C2: a constructor call in which every setter accepts its value returns,
\* and leaves an instance with a positive payment and a non-empty table that
\* equals the instance built from the numbers the numeric strings stand for.
C2_ValidFieldsConstruct ==
    (AfterInit /\ ~Rejected(SetterResults(last.args)))
        => /\ last.exc = ""
           /\ Built
           /\ Instance.payment.t = "float"
           /\ Instance.payment.v.s > 0
           /\ Len(Table) > 0
           /\ SameAsParsed(Instance, MortgageInit(ParsedKwargs(last.args)))

\* C3: the construction of every valid instrument without prepayment
\* returns, and the table it builds has amortization times payments_per_year
\* records, numbered 1, 2, ... up to num_periods in this order.
C3_TableLength ==
    (AfterInit /\ last.args \in ValidArgs)
        => /\ AfterInitOk
           /\ NoPrepayment
           /\ Len(Table) = last.args.amortization.v * last.args.payments_per_year.v
           /\ Instance.num_periods = PyInt(Len(Table))
           /\ \A i \in 1..Len(Table) : Table[i].payment_num = i

\* C3 case: a weekly schedule of the largest principal over the longest
\* amortization, one record a week
C3_Witness ==
    /\ AfterInitOk
    /\ NoPrepayment
    /\ Instance._principal = PyInt(10000000)
    /\ Instance._payments_per_year = PyInt(52)
    /\ Instance._amortization = PyInt(MaxAmortization)
    /\ Len(Table) = 52 * MaxAmortization
    /\ LastRecord.payment_num = 52 * MaxAmortization

\* C4: after a construction with no prepayment the balance of the last
\* record, the principal less all the principal portions, is below 1 in
\* absolute value.
C4_ScheduleRepaysPrincipal ==
    (AfterInitOk /\ NoPrepayment) => FLt(FAbs(LastRecord.balance), FOne)

\* C5: after a construction period_rate is the stored interest_rate, the one
\* the setter normalized, divided by the stored payments_per_year.
C5_PeriodRateFromStoredRate ==
    AfterInitOk
        => Return(Instance.period_rate)
               = PyTrueDiv(Instance._interest_rate, Instance._payments_per_year)

\* a datetime, or a string that parses as one
IsDateArg(d) == d.t = "datetime" \/ (d.t = "str" /\ Strptime(d.v).exc = "")
DateOf(d) == IF d.t = "str" THEN Strptime(d.v).v.v ELSE d.v
NewYear2022 == [year |-> 2022, month |-> 1, day |-> 1]
Jan5th2023 == [year |-> 2023, month |-> 1, day |-> 5]
OrderedDates(args) ==
    /\ IsDateArg(args.start_date)
    /\ IsDateArg(args.end_date)
    /\ ToOrdinal(DateOf(args.start_date)) <= ToOrdinal(DateOf(args.end_date))

\* C6: _calculate_num_periods_between_dates returns for every start_date not
\* after end_date, and from 2022-01-01 to 2023-01-05 it returns the
\* payments_per_year of the instance.
C6_NumPeriodsBetweenDates ==
    (last.op = "_calculate_num_periods_between_dates" /\ OrderedDates(last.args))
        => /\ last.exc = ""
           /\ (DateOf(last.args.start_date) = NewYear2022
               /\ DateOf(last.args.end_date) = Jan5th2023)
                  => last.ret = Instance._payments_per_year

\* the calls C7 is about: the construction and the assignments to the fields
FieldCalls == {"__init__", "amortization", "payments_per_year", "interest_rate",
               "term", "start_date"}

\* C7: after the construction and after every assignment to a field,
\* num_periods, period_rate and term_end_date are the ones the stored fields
\* give.
C7_DerivedAttributesAgree ==
    (Built /\ last.op \in FieldCalls)
        => /\ Instance.num_periods
                  = PyInt(Instance._amortization.v * Instance._payments_per_year.v)
           /\ Return(Instance.period_rate)
                  = PyTrueDiv(Instance._interest_rate, Instance._payments_per_year)
           /\ Instance.term_end_date
                  = AddYears(Instance._start_date.v, Instance._term.v)

\* C8: renew_mortgage called on a date before term_end_date fails.
C8_RenewBeforeTermEndFails ==
    (last.op = "renew_mortgage"
     /\ ToOrdinal(last.args.today.v) < ToOrdinal(Instance.term_end_date))
        => last.exc # ""

\* C9: make_lumpsum_payment with an amount that is not above 0, or that is
\* above current_balance, fails.
C9_LumpsumOutOfRangeFails ==
    (last.op = "make_lumpsum_payment"
     /\ (PyLe(last.args.payment, PyInt(0))
         \/ ~PyLe(last.args.payment, Instance.current_balance)))
        => last.exc # ""

\* the days of a payment period that is not the month
PeriodDays(payments_per_year) == IF payments_per_year = 26 THEN 14 ELSE 7

\* C10: in a table that create_amortization_table built, the dates of
\* consecutive records are a month apart at 12 payments a year, 14 days at 26
\* and 7 days at 52.
C10_DatesOnePeriodApart ==
    (Built /\ last.op \in {"__init__", "create_amortization_table"} /\ last.exc = "")
        => \A i \in 1..(Len(Table) - 1) :
              IF Instance._payments_per_year.v = 12
              THEN Table[i + 1].payment_dates = AddMonths(Table[1].payment_dates, i)
              ELSE ToOrdinal(Table[i + 1].payment_dates) - ToOrdinal(Table[i].payment_dates)
                       = PeriodDays(Instance._payments_per_year.v)

====
